---- MODULE Spec2Model ----
(***************************************************************************)
(* Model of the container specification builder of go-marathon, docker.go. *)
(* A Container record nests an optional Docker record; optional fields are *)
(* Go pointers, modelled as sets holding no element (nil) or one element   *)
(* (a pointer to that element).                                            *)
(***************************************************************************)
EXTENDS Integers, Sequences, FiniteSets, TLC

VARIABLES container, ret, pc, log

vars == <<container, ret, pc, log>>

(* ---------------------------------------------------------------- bounds *)

\* The total number of list entries (volumes, port mappings, parameters)
\* a run of the model builds.
MaxEntries == 2

(* ---------------------------------------------------------------- inputs *)

HostPaths == {"/host"}
ContainerPaths == {"/container"}
Modes == {"RW", "RO"}
ParamKeys == {"env", "label"}
ParamValues == {"v"}
Images == {"nginx"}
Ports == {80, 443}
\* a port that some mappings hold, and one that none holds
LookupPorts == {443, 9999}
\* <<containerPort, hostPort, servicePort, protocol>> arguments of ExposePort
ExposeArgs == {<<443, 8080, 10000, "tcp">>}

\* the sequences over S of length 0..n
SeqsUpTo(S, n) ==
    UNION {[1..k -> S] : k \in 0..n}

\* the ports arguments of Expose and ExposeUDP
PortLists == SeqsUpTo(Ports, MaxEntries)

(* -------------------------------------------------------------- pointers *)

Nil == {}

Ptr(v) == {v}

Deref(p) == CHOOSE v \in p : TRUE

(* ------------------------------------------------------------ data model *)

\* Container{}: the zero value of the struct
ZeroContainer ==
    [Type |-> "", Docker |-> Nil, Volumes |-> Nil]

\* Docker{}: the zero value of the struct
ZeroDocker ==
    [ForcePullImage |-> Nil, Image |-> "", Network |-> "",
     Parameters |-> Nil, PortMappings |-> Nil, Privileged |-> Nil]

(* ------------------------------------------------------------ operations *)

\* faulty variant: clearing a present list resets it to unset
MutEmptyVolumesUnsets(c) ==
    IF c.Volumes = Nil THEN [c EXCEPT !.Volumes = Ptr(<<>>)]
    ELSE [c EXCEPT !.Volumes = Nil]

EmptyVolumes(c) ==
    [c EXCEPT !.Volumes = Ptr(<<>>)]

Volume(c, hostPath, containerPath, mode) ==
    LET c1 == IF c.Volumes = Nil THEN EmptyVolumes(c) ELSE c
        volumes == Append(Deref(c1.Volumes),
                          [ContainerPath |-> containerPath,
                           HostPath |-> hostPath,
                           Mode |-> mode])
    IN  [c1 EXCEPT !.Volumes = Ptr(volumes)]

\* faulty variant: the volumes start as an explicit empty list
MutNewDockerContainerEmptyVolumes ==
    [ZeroContainer EXCEPT !.Type = "DOCKER", !.Docker = Ptr(ZeroDocker),
                          !.Volumes = Ptr(<<>>)]

NewDockerContainer ==
    [ZeroContainer EXCEPT !.Type = "DOCKER", !.Docker = Ptr(ZeroDocker)]

\* faulty variant: only true is stored
MutSetForcePullImageOnlyTrue(d, forcePull) ==
    IF forcePull THEN [d EXCEPT !.ForcePullImage = Ptr(TRUE)] ELSE d

SetForcePullImage(d, forcePull) ==
    [d EXCEPT !.ForcePullImage = Ptr(forcePull)]

SetPrivileged(d, priv) ==
    [d EXCEPT !.Privileged = Ptr(priv)]

\* faulty variant: setting the image resets the network
MutContainerResetsNetwork(d, image) ==
    [d EXCEPT !.Image = image, !.Network = ""]

Container(d, image) ==
    [d EXCEPT !.Image = image]

Bridged(d) ==
    [d EXCEPT !.Network = "HOST"]

EmptyPortMappings(d) ==
    [d EXCEPT !.PortMappings = Ptr(<<>>)]

\* faulty variant: hostPort and servicePort are stored in each other's field
MutExposePortSwapsPorts(d, containerPort, hostPort, servicePort, protocol) ==
    LET old == IF d.PortMappings = Nil THEN <<>> ELSE Deref(d.PortMappings)
    IN  [d EXCEPT !.PortMappings =
           Ptr(Append(old, [ContainerPort |-> containerPort,
                            HostPort |-> servicePort,
                            ServicePort |-> hostPort,
                            Protocol |-> protocol]))]

ExposePort(d, containerPort, hostPort, servicePort, protocol) ==
    LET d1 == IF d.PortMappings = Nil THEN EmptyPortMappings(d) ELSE d
        portMappings == Append(Deref(d1.PortMappings),
                               [ContainerPort |-> containerPort,
                                HostPort |-> hostPort,
                                ServicePort |-> servicePort,
                                Protocol |-> protocol])
    IN  [d1 EXCEPT !.PortMappings = Ptr(portMappings)]

\* faulty variant: the ports are appended in reverse order
RECURSIVE MutExposeReversed(_, _)
MutExposeReversed(d, ports) ==
    IF ports = <<>> THEN d
    ELSE LET d1 == MutExposeReversed(d, Tail(ports))
             old == IF d1.PortMappings = Nil THEN <<>> ELSE Deref(d1.PortMappings)
         IN  [d1 EXCEPT !.PortMappings =
                Ptr(Append(old, [ContainerPort |-> Head(ports), HostPort |-> 0,
                                 ServicePort |-> 0, Protocol |-> "tcp"]))]

RECURSIVE Expose(_, _)
Expose(d, ports) ==
    IF ports = <<>> THEN d
    ELSE Expose(ExposePort(d, Head(ports), 0, 0, "tcp"), Tail(ports))

RECURSIVE ExposeUDP(_, _)
ExposeUDP(d, ports) ==
    IF ports = <<>> THEN d
    ELSE ExposeUDP(ExposePort(d, Head(ports), 0, 0, "udp"), Tail(ports))

EmptyParameters(d) ==
    [d EXCEPT !.Parameters = Ptr(<<>>)]

AddParameter(d, key, value) ==
    LET d1 == IF d.Parameters = Nil THEN EmptyParameters(d) ELSE d
        parameters == Append(Deref(d1.Parameters),
                             [Key |-> key, Value |-> value])
    IN  [d1 EXCEPT !.Parameters = Ptr(parameters)]

ErrNoPortMappings ==
    "The docker does not contain any port mappings to search"

ErrPortNotFound ==
    "The container port required was not found in the container port mappings"

\* faulty variant: the loop does not stop at the first match
RECURSIVE MutScanLastMatch(_, _, _)
MutScanLastMatch(portMappings, port, i) ==
    IF i > Len(portMappings)
    THEN [index |-> 0, err |-> Ptr(ErrPortNotFound)]
    ELSE LET rest == MutScanLastMatch(portMappings, port, i + 1)
         IN  IF rest.err = Nil THEN rest
             ELSE IF portMappings[i].ContainerPort = port
                  THEN [index |-> i - 1, err |-> Nil]
                  ELSE rest

\* the range loop of ServicePortIndex from (one-based) position i on
RECURSIVE ScanPortMappings(_, _, _)
ScanPortMappings(portMappings, port, i) ==
    IF i > Len(portMappings)
    THEN [index |-> 0, err |-> Ptr(ErrPortNotFound)]
    ELSE IF portMappings[i].ContainerPort = port
         THEN [index |-> i - 1, err |-> Nil]
         ELSE ScanPortMappings(portMappings, port, i + 1)

\* faulty variant: an empty list is not told from a list without the port
MutServicePortIndexNilOnly(d, port) ==
    IF d.PortMappings = Nil
    THEN [index |-> 0, err |-> Ptr(ErrNoPortMappings)]
    ELSE ScanPortMappings(Deref(d.PortMappings), port, 1)

ServicePortIndex(d, port) ==
    IF d.PortMappings = Nil \/ Len(Deref(d.PortMappings)) = 0
    THEN [index |-> 0, err |-> Ptr(ErrNoPortMappings)]
    ELSE ScanPortMappings(Deref(d.PortMappings), port, 1)

(* --------------------------------------------------------- serialization *)

\* encoding/json's omitempty test, by the field's Go type
\* a *bool field
EmptyBoolPointer(p) == p = Nil

\* faulty variant: omitempty as on a plain slice, an empty list is omitted
MutEmptyListPointerLooksThrough(p) ==
    p = Nil \/ Len(Deref(p)) = 0

\* a *[]T field
EmptyListPointer(p) == p = Nil

\* a *Docker field
EmptyStructPointer(p) == p = Nil

EmptyString(s) == s = ""

EmptyInt(n) == n = 0

\* Each JSON object is the function from its emitted keys to their values.
MarshalVolume(v) ==
    LET keys == {k \in {"containerPath", "hostPath", "mode"} :
                   CASE k = "containerPath" -> ~EmptyString(v.ContainerPath)
                     [] k = "hostPath" -> ~EmptyString(v.HostPath)
                     [] k = "mode" -> ~EmptyString(v.Mode)}
    IN  [k \in keys |->
           CASE k = "containerPath" -> v.ContainerPath
             [] k = "hostPath" -> v.HostPath
             [] k = "mode" -> v.Mode]

MarshalPortMapping(m) ==
    LET keys == {k \in {"containerPort", "hostPort", "servicePort", "protocol"} :
                   CASE k = "containerPort" -> ~EmptyInt(m.ContainerPort)
                     [] k = "hostPort" -> TRUE
                     [] k = "servicePort" -> ~EmptyInt(m.ServicePort)
                     [] k = "protocol" -> TRUE}
    IN  [k \in keys |->
           CASE k = "containerPort" -> m.ContainerPort
             [] k = "hostPort" -> m.HostPort
             [] k = "servicePort" -> m.ServicePort
             [] k = "protocol" -> m.Protocol]

MarshalParameters(p) ==
    LET keys == {k \in {"key", "value"} :
                   CASE k = "key" -> ~EmptyString(p.Key)
                     [] k = "value" -> ~EmptyString(p.Value)}
    IN  [k \in keys |->
           CASE k = "key" -> p.Key
             [] k = "value" -> p.Value]

MarshalDocker(d) ==
    LET keys == {k \in {"forcePullImage", "image", "network", "parameters",
                        "portMappings", "privileged"} :
                   CASE k = "forcePullImage" -> ~EmptyBoolPointer(d.ForcePullImage)
                     [] k = "image" -> ~EmptyString(d.Image)
                     [] k = "network" -> ~EmptyString(d.Network)
                     [] k = "parameters" -> ~EmptyListPointer(d.Parameters)
                     [] k = "portMappings" -> ~EmptyListPointer(d.PortMappings)
                     [] k = "privileged" -> ~EmptyBoolPointer(d.Privileged)}
    IN  [k \in keys |->
           CASE k = "forcePullImage" -> Deref(d.ForcePullImage)
             [] k = "image" -> d.Image
             [] k = "network" -> d.Network
             [] k = "parameters" ->
                  [i \in DOMAIN Deref(d.Parameters) |->
                     MarshalParameters(Deref(d.Parameters)[i])]
             [] k = "portMappings" ->
                  [i \in DOMAIN Deref(d.PortMappings) |->
                     MarshalPortMapping(Deref(d.PortMappings)[i])]
             [] k = "privileged" -> Deref(d.Privileged)]

MarshalContainer(c) ==
    LET keys == {k \in {"type", "docker", "volumes"} :
                   CASE k = "type" -> ~EmptyString(c.Type)
                     [] k = "docker" -> ~EmptyStructPointer(c.Docker)
                     [] k = "volumes" -> ~EmptyListPointer(c.Volumes)}
    IN  [k \in keys |->
           CASE k = "type" -> c.Type
             [] k = "docker" -> MarshalDocker(Deref(c.Docker))
             [] k = "volumes" ->
                  [i \in DOMAIN Deref(c.Volumes) |->
                     MarshalVolume(Deref(c.Volumes)[i])]]

(* ------------------------------------------------------------- the calls *)

\* what the last call returned: the receiver of a builder call, or the
\* (index, error) pair of ServicePortIndex
NoCall == [kind |-> "none", index |-> 0, err |-> Nil]

Receiver == [kind |-> "receiver", index |-> 0, err |-> Nil]

Result(r) == [kind |-> "result", index |-> r.index, err |-> r.err]

ListLen(p) == IF p = Nil THEN 0 ELSE Len(Deref(p))

Entries(c) ==
    ListLen(c.Volumes)
    + (IF c.Docker = Nil THEN 0
       ELSE ListLen(Deref(c.Docker).PortMappings)
            + ListLen(Deref(c.Docker).Parameters))

\* History kept beside the program state: per list the arguments appended
\* since its last clear (Nil while the list was never touched), per flag the
\* argument of its last setter call (Nil while never set).
NoLog ==
    [Volumes |-> Nil, PortMappings |-> Nil, Parameters |-> Nil,
     ForcePullImage |-> Nil, Privileged |-> Nil]

LogAppend(l, args) ==
    Ptr((IF l = Nil THEN <<>> ELSE Deref(l)) \o args)

WithDocker(d) == [container EXCEPT !.Docker = Ptr(d)]

Built == pc = "built"

HasDocker == Built /\ container.Docker # Nil

TheDocker == Deref(container.Docker)

Init ==
    /\ container = ZeroContainer
    /\ ret = NoCall
    /\ pc = "start"
    /\ log = NoLog

\* c := &Container{}
ContainerLiteral ==
    /\ pc = "start"
    /\ pc' = "built"
    /\ ret' = Receiver
    /\ UNCHANGED log
    /\ container' = ZeroContainer

\* c := NewDockerContainer()
NewDockerContainerCall ==
    /\ pc = "start"
    /\ pc' = "built"
    /\ ret' = Receiver
    /\ UNCHANGED log
    /\ container' = NewDockerContainer

VolumeCall(hostPath, containerPath, mode) ==
    /\ Built
    /\ Entries(container) < MaxEntries
    /\ ret' = Receiver
    /\ log' = [log EXCEPT !.Volumes =
                 LogAppend(@, <<<<hostPath, containerPath, mode>>>>)]
    /\ UNCHANGED pc
    /\ container' = Volume(container, hostPath, containerPath, mode)

EmptyVolumesCall ==
    /\ Built
    /\ ret' = Receiver
    /\ log' = [log EXCEPT !.Volumes = Ptr(<<>>)]
    /\ UNCHANGED pc
    /\ container' = EmptyVolumes(container)

SetForcePullImageCall(forcePull) ==
    /\ HasDocker
    /\ ret' = Receiver
    /\ log' = [log EXCEPT !.ForcePullImage = Ptr(forcePull)]
    /\ UNCHANGED pc
    /\ container' = WithDocker(SetForcePullImage(TheDocker, forcePull))

SetPrivilegedCall(priv) ==
    /\ HasDocker
    /\ ret' = Receiver
    /\ log' = [log EXCEPT !.Privileged = Ptr(priv)]
    /\ UNCHANGED pc
    /\ container' = WithDocker(SetPrivileged(TheDocker, priv))

ContainerCall(image) ==
    /\ HasDocker
    /\ ret' = Receiver
    /\ UNCHANGED <<pc, log>>
    /\ container' = WithDocker(Container(TheDocker, image))

BridgedCall ==
    /\ HasDocker
    /\ ret' = Receiver
    /\ UNCHANGED <<pc, log>>
    /\ container' = WithDocker(Bridged(TheDocker))

ExposeCall(ports) ==
    /\ HasDocker
    /\ Entries(container) + Len(ports) <= MaxEntries
    /\ ret' = Receiver
    /\ log' = IF ports = <<>> THEN log
              ELSE [log EXCEPT !.PortMappings =
                      LogAppend(@, [i \in DOMAIN ports |->
                                      <<ports[i], 0, 0, "tcp">>])]
    /\ UNCHANGED pc
    /\ container' = WithDocker(Expose(TheDocker, ports))

ExposeUDPCall(ports) ==
    /\ HasDocker
    /\ Entries(container) + Len(ports) <= MaxEntries
    /\ ret' = Receiver
    /\ log' = IF ports = <<>> THEN log
              ELSE [log EXCEPT !.PortMappings =
                      LogAppend(@, [i \in DOMAIN ports |->
                                      <<ports[i], 0, 0, "udp">>])]
    /\ UNCHANGED pc
    /\ container' = WithDocker(ExposeUDP(TheDocker, ports))

ExposePortCall(a) ==
    /\ HasDocker
    /\ Entries(container) < MaxEntries
    /\ ret' = Receiver
    /\ log' = [log EXCEPT !.PortMappings = LogAppend(@, <<a>>)]
    /\ UNCHANGED pc
    /\ container' = WithDocker(ExposePort(TheDocker, a[1], a[2], a[3], a[4]))

EmptyPortMappingsCall ==
    /\ HasDocker
    /\ ret' = Receiver
    /\ log' = [log EXCEPT !.PortMappings = Ptr(<<>>)]
    /\ UNCHANGED pc
    /\ container' = WithDocker(EmptyPortMappings(TheDocker))

AddParameterCall(key, value) ==
    /\ HasDocker
    /\ Entries(container) < MaxEntries
    /\ ret' = Receiver
    /\ log' = [log EXCEPT !.Parameters = LogAppend(@, <<<<key, value>>>>)]
    /\ UNCHANGED pc
    /\ container' = WithDocker(AddParameter(TheDocker, key, value))

EmptyParametersCall ==
    /\ HasDocker
    /\ ret' = Receiver
    /\ log' = [log EXCEPT !.Parameters = Ptr(<<>>)]
    /\ UNCHANGED pc
    /\ container' = WithDocker(EmptyParameters(TheDocker))

ServicePortIndexCall(port) ==
    /\ HasDocker
    /\ UNCHANGED <<container, pc, log>>
    /\ ret' = Result(ServicePortIndex(TheDocker, port))

Next ==
    \/ ContainerLiteral
    \/ NewDockerContainerCall
    \/ \E h \in HostPaths, c \in ContainerPaths, m \in Modes : VolumeCall(h, c, m)
    \/ EmptyVolumesCall
    \/ \E b \in BOOLEAN : SetForcePullImageCall(b)
    \/ \E b \in BOOLEAN : SetPrivilegedCall(b)
    \/ \E image \in Images : ContainerCall(image)
    \/ BridgedCall
    \/ \E ports \in PortLists : ExposeCall(ports)
    \/ \E ports \in PortLists : ExposeUDPCall(ports)
    \/ \E a \in ExposeArgs : ExposePortCall(a)
    \/ EmptyPortMappingsCall
    \/ \E k \in ParamKeys, v \in ParamValues : AddParameterCall(k, v)
    \/ EmptyParametersCall
    \/ \E p \in LookupPorts : ServicePortIndexCall(p)

Spec == Init /\ [][Next]_vars

(* ---------------------------------------------------------------- claims *)

VolumeOf(a) ==
    [ContainerPath |-> a[2], HostPath |-> a[1], Mode |-> a[3]]

PortMappingOf(a) ==
    [ContainerPort |-> a[1], HostPort |-> a[2], ServicePort |-> a[3],
     Protocol |-> a[4]]

ParameterOf(a) ==
    [Key |-> a[1], Value |-> a[2]]

\* the list behind pointer p holds exactly the logged arguments l, in order
HoldsExactly(p, l, Of(_)) ==
    IF l = Nil THEN ListLen(p) = 0
    ELSE /\ p # Nil
         /\ Len(Deref(p)) = Len(Deref(l))
         /\ \A i \in 1..Len(Deref(l)) : Deref(p)[i] = Of(Deref(l)[i])

PortMappingsField == IF container.Docker = Nil THEN Nil ELSE TheDocker.PortMappings

ParametersField == IF container.Docker = Nil THEN Nil ELSE TheDocker.Parameters

\* C1: each of the three lists holds exactly the entries appended to it since
\* its most recent clear, in call order, with the argument values stored
\* verbatim; so its length is the number of those appends.
C1_ListsHoldAppendsInOrder ==
    Built =>
      /\ HoldsExactly(container.Volumes, log.Volumes, VolumeOf)
      /\ HoldsExactly(PortMappingsField, log.PortMappings, PortMappingOf)
      /\ HoldsExactly(ParametersField, log.Parameters, ParameterOf)

\* two port mappings appended by different calls, one with four different
\* arguments
C1_Witness ==
    /\ log.PortMappings = Ptr(<<<<80, 0, 0, "udp">>, <<443, 8080, 10000, "tcp">>>>)
    /\ Len(Deref(PortMappingsField)) = 2

Present(p) == p # Nil

\* C2: a list field that is present stays present in every later state; a
\* clear call leaves its field present with length 0, unlike the unset state
\* of a never touched field; an append leaves its field present.
C2_PresenceIsMonotone ==
    [][/\ Present(container.Volumes) => Present(container'.Volumes)
       /\ Present(PortMappingsField) => Present(PortMappingsField')
       /\ Present(ParametersField) => Present(ParametersField')
       /\ EmptyVolumesCall =>
            /\ container'.Volumes = Ptr(<<>>)
            /\ container'.Volumes # ZeroContainer.Volumes
       /\ EmptyPortMappingsCall =>
            /\ PortMappingsField' = Ptr(<<>>)
            /\ PortMappingsField' # ZeroDocker.PortMappings
       /\ EmptyParametersCall =>
            /\ ParametersField' = Ptr(<<>>)
            /\ ParametersField' # ZeroDocker.Parameters
       /\ \A h \in HostPaths, c \in ContainerPaths, m \in Modes :
            VolumeCall(h, c, m) => Present(container'.Volumes)
       /\ \A a \in ExposeArgs :
            ExposePortCall(a) => Present(PortMappingsField')
       /\ \A k \in ParamKeys, v \in ParamValues :
            AddParameterCall(k, v) => Present(ParametersField')
      ]_vars

\* the volumes were filled and cleared again, the port mappings never touched
C2_Witness ==
    /\ Built
    /\ container.Docker # Nil
    /\ log.Volumes = Ptr(<<>>)
    /\ container.Volumes = Ptr(<<>>)
    /\ log.PortMappings = Nil
    /\ TheDocker.PortMappings = Nil
    /\ log.Parameters # Nil
    /\ Len(Deref(TheDocker.Parameters)) = 2

\* the (one-based) positions of the port mappings whose containerPort is port
Matches(port) ==
    IF PortMappingsField = Nil THEN {}
    ELSE {i \in 1..Len(Deref(PortMappingsField)) :
            Deref(PortMappingsField)[i].ContainerPort = port}

\* C3: when some port mapping has containerPort = p, ServicePortIndex(p)
\* returns no error and the smallest zero-based index of such an entry.
C3_FirstMatchIndex ==
    [][\A p \in LookupPorts :
         (ServicePortIndexCall(p) /\ Matches(p) # {}) =>
           /\ ret'.kind = "result"
           /\ ret'.err = Nil
           /\ ret'.index + 1 \in Matches(p)
           /\ \A i \in Matches(p) : ret'.index + 1 <= i
      ]_vars

\* Expose(80, 443) then ServicePortIndex(443) returned 1
C3_Witness ==
    /\ HasDocker
    /\ TheDocker.PortMappings =
         Ptr(<<PortMappingOf(<<80, 0, 0, "tcp">>),
               PortMappingOf(<<443, 0, 0, "tcp">>)>>)
    /\ ret = [kind |-> "result", index |-> 1, err |-> Nil]

\* C4: ServicePortIndex(p) fails with the NoPortMappings error exactly when the
\* list is unset or empty, with the PortNotFound error exactly when the list
\* is non-empty without an entry for p, and succeeds otherwise; the three
\* outcomes differ.
C4_LookupErrors ==
    [][\A p \in LookupPorts :
         ServicePortIndexCall(p) =>
           /\ ret'.err = Ptr(ErrNoPortMappings) <=> ListLen(PortMappingsField) = 0
           /\ ret'.err = Ptr(ErrPortNotFound) <=>
                (ListLen(PortMappingsField) > 0 /\ Matches(p) = {})
           /\ ret'.err = Nil <=> Matches(p) # {}
           /\ ret'.err \in {Nil, Ptr(ErrNoPortMappings), Ptr(ErrPortNotFound)}
           /\ Cardinality({Nil, Ptr(ErrNoPortMappings), Ptr(ErrPortNotFound)}) = 3
      ]_vars

\* a lookup in an explicitly empty list failed with the NoPortMappings error
C4_Witness ==
    /\ HasDocker
    /\ TheDocker.PortMappings = Ptr(<<>>)
    /\ ret.kind = "result"
    /\ ret.err = Ptr(ErrNoPortMappings)

Keys(json) == DOMAIN json

\* C5: of the optional fields exactly those that are present (non-nil) are
\* emitted, a present one also when it holds the empty list or false.
C5_UnsetFieldsAreOmitted ==
    Built =>
      LET json == MarshalContainer(container)
      IN  /\ "volumes" \in Keys(json) <=> container.Volumes # Nil
          /\ "docker" \in Keys(json) <=> container.Docker # Nil
          /\ container.Volumes = Ptr(<<>>) => json["volumes"] = <<>>
          /\ container.Docker # Nil =>
               LET d == json["docker"]
               IN  /\ "parameters" \in Keys(d) <=> TheDocker.Parameters # Nil
                   /\ "portMappings" \in Keys(d) <=> TheDocker.PortMappings # Nil
                   /\ "forcePullImage" \in Keys(d) <=> TheDocker.ForcePullImage # Nil
                   /\ "privileged" \in Keys(d) <=> TheDocker.Privileged # Nil
                   /\ TheDocker.Parameters = Ptr(<<>>) => d["parameters"] = <<>>
                   /\ TheDocker.PortMappings = Ptr(<<>>) => d["portMappings"] = <<>>
                   /\ TheDocker.ForcePullImage = Ptr(FALSE) => d["forcePullImage"] = FALSE
                   /\ TheDocker.Privileged = Ptr(FALSE) => d["privileged"] = FALSE

\* explicitly empty volumes and port mappings and an explicit false are
\* emitted beside unset parameters and an unset flag
C5_Witness ==
    /\ HasDocker
    /\ container.Volumes = Ptr(<<>>)
    /\ TheDocker.PortMappings = Ptr(<<>>)
    /\ TheDocker.Parameters = Nil
    /\ TheDocker.ForcePullImage = Ptr(FALSE)
    /\ TheDocker.Privileged = Nil
    /\ Keys(MarshalContainer(container)) = {"type", "docker", "volumes"}
    /\ Keys(MarshalContainer(container)["docker"]) = {"forcePullImage", "portMappings"}

\* C6: NewDockerContainer returns a Container of Type "DOCKER" whose Docker
\* record is present with every field unset or empty, and whose Volumes are
\* unset (not an empty list).
C6_NewDockerContainer ==
    [][NewDockerContainerCall =>
         /\ container'.Type = "DOCKER"
         /\ container'.Docker # Nil
         /\ container'.Volumes = Nil
         /\ container'.Volumes # Ptr(<<>>)
         /\ LET d == Deref(container'.Docker)
            IN  /\ d.ForcePullImage = Nil
                /\ d.Privileged = Nil
                /\ d.Parameters = Nil
                /\ d.PortMappings = Nil
                /\ d.Image = ""
                /\ d.Network = ""
      ]_vars

\* the container as NewDockerContainer returned it
C6_Witness ==
    /\ Built
    /\ container.Type = "DOCKER"
    /\ container.Docker # Nil
    /\ log = NoLog
    /\ TheDocker.Image = ""
    /\ TheDocker.Network = ""

\* the port mappings after the n ports were exposed with the protocol
Exposed(old, ports, protocol) ==
    IF ports = <<>> THEN old
    ELSE Ptr((IF old = Nil THEN <<>> ELSE Deref(old))
             \o [i \in 1..Len(ports) |->
                   [ContainerPort |-> ports[i], HostPort |-> 0,
                    ServicePort |-> 0, Protocol |-> protocol]])

\* the lists of as many ports as the step has logged port mappings; an
\* Expose or ExposeUDP step logs one port mapping per port, so every other
\* list of ports is not the argument of the step
PortListsOfStep ==
    LET n == ListLen(log'.PortMappings) - ListLen(log.PortMappings)
    IN  IF n < 0 THEN {} ELSE [1..n -> Ports]

\* C7: Expose(p1..pn) (ExposeUDP) appends, after the existing entries and in
\* argument order, the n mappings (pi, 0, 0, "tcp") ("udp"), as n calls of
\* ExposePort do; with n = 0 the list is unchanged, an unset one stays unset.
C7_ExposeAppendsEachPort ==
    [][\A ports \in PortListsOfStep :
         /\ ExposeCall(ports) =>
              container' = WithDocker([TheDocker EXCEPT !.PortMappings =
                                         Exposed(@, ports, "tcp")])
         /\ ExposeUDPCall(ports) =>
              container' = WithDocker([TheDocker EXCEPT !.PortMappings =
                                         Exposed(@, ports, "udp")])
      ]_vars

\* ExposeUDP(443, 80) on a record without port mappings
C7_Witness ==
    /\ HasDocker
    /\ log.PortMappings = Ptr(<<<<443, 0, 0, "udp">>, <<80, 0, 0, "udp">>>>)
    /\ TheDocker.PortMappings =
         Ptr(<<PortMappingOf(<<443, 0, 0, "udp">>),
               PortMappingOf(<<80, 0, 0, "udp">>)>>)

\* the token of bridged networking, and of host networking
BridgeToken == "BRIDGE"

HostToken == "HOST"

\* C8: after Bridged() the Network field holds the token of bridged
\* networking, not the one of host networking.
C8_BridgedSetsBridge ==
    [][BridgedCall =>
         /\ Deref(container'.Docker).Network = BridgeToken
         /\ Deref(container'.Docker).Network # HostToken
      ]_vars

\* C9: ForcePullImage and Privileged are unset until their setter is first
\* called; a setter call leaves its field present with exactly its argument,
\* true or false, so the last call wins; no operation returns a set field to
\* unset.
C9_FlagsAreTriState ==
    [][/\ HasDocker' =>
            /\ Deref(container'.Docker).ForcePullImage = log'.ForcePullImage
            /\ Deref(container'.Docker).Privileged = log'.Privileged
       /\ HasDocker =>
            /\ TheDocker.ForcePullImage # Nil =>
                 Deref(container'.Docker).ForcePullImage # Nil
            /\ TheDocker.Privileged # Nil =>
                 Deref(container'.Docker).Privileged # Nil
       /\ \A b \in BOOLEAN :
            /\ SetForcePullImageCall(b) =>
                 Deref(container'.Docker).ForcePullImage = Ptr(b)
            /\ SetPrivilegedCall(b) =>
                 Deref(container'.Docker).Privileged = Ptr(b)
      ]_vars

\* an explicit false beside an explicit true, lists built as well
C9_Witness ==
    /\ HasDocker
    /\ TheDocker.ForcePullImage = Ptr(FALSE)
    /\ TheDocker.Privileged = Ptr(TRUE)
    /\ Entries(container) = MaxEntries

\* every field of the Container and Docker records but the named one is kept
KeepsAllBut(field) ==
    /\ container'.Type = container.Type
    /\ field # "Volumes" => container'.Volumes = container.Volumes
    /\ (container'.Docker = Nil) <=> (container.Docker = Nil)
    /\ container.Docker # Nil =>
         \A f \in DOMAIN ZeroDocker \ {field} :
           Deref(container'.Docker)[f] = TheDocker[f]

\* C10: every builder call changes only the field it targets, and
\* ServicePortIndex changes nothing, whether it succeeds or fails.
C10_Frame ==
    [][/\ \A h \in HostPaths, c \in ContainerPaths, m \in Modes :
            VolumeCall(h, c, m) => KeepsAllBut("Volumes")
       /\ EmptyVolumesCall => KeepsAllBut("Volumes")
       /\ \A a \in ExposeArgs : ExposePortCall(a) => KeepsAllBut("PortMappings")
       /\ \A ports \in PortListsOfStep :
            /\ ExposeCall(ports) => KeepsAllBut("PortMappings")
            /\ ExposeUDPCall(ports) => KeepsAllBut("PortMappings")
       /\ EmptyPortMappingsCall => KeepsAllBut("PortMappings")
       /\ \A k \in ParamKeys, v \in ParamValues :
            AddParameterCall(k, v) => KeepsAllBut("Parameters")
       /\ EmptyParametersCall => KeepsAllBut("Parameters")
       /\ \A b \in BOOLEAN :
            /\ SetForcePullImageCall(b) => KeepsAllBut("ForcePullImage")
            /\ SetPrivilegedCall(b) => KeepsAllBut("Privileged")
       /\ \A image \in Images : ContainerCall(image) => KeepsAllBut("Image")
       /\ BridgedCall => KeepsAllBut("Network")
       /\ \A p \in LookupPorts :
            ServicePortIndexCall(p) => container' = container
      ]_vars

\* a record with every kind of field set, after a lookup that failed
C10_Witness ==
    /\ HasDocker
    /\ container.Volumes # Nil
    /\ TheDocker.PortMappings # Nil
    /\ TheDocker.Parameters # Nil
    /\ TheDocker.ForcePullImage # Nil
    /\ TheDocker.Privileged # Nil
    /\ TheDocker.Image # ""
    /\ TheDocker.Network # ""
    /\ Entries(container) = MaxEntries
    /\ ret.kind = "result"
    /\ ret.err # Nil

====
